---- MODULE Spec2Model ----
(***************************************************************************)
(* State-machine model of src/main.py: the hotkey-driven capture / solve / *)
(* type coordination engine.  Every thread the program starts is a process *)
(* with its own program counter; every module-level global is a variable.  *)
(* Optional values (Python None) are sequences: <<>> is None, <<v>> is v.   *)
(***************************************************************************)
EXTENDS Integers, Sequences, FiniteSets, TLC

\* ------------------------------------------------------------------ bounds
NumSolveThreads == 2      \* solve_current_mcq threads that may overlap
MaxSolveRuns == 2         \* capture-question hotkey presses explored
MaxOptions == 3           \* option clicks recorded by one solve operation
NumApiThreads == 2        \* concurrent inference callers in SpecApi
MaxRequests == 22         \* cap on api_request_count
NumTypeThreads == 2       \* auto_type_response threads that may overlap
MaxTypeRuns == 3          \* type-answer hotkey presses explored
NumGenThreads == 1        \* generate_ai_response workers that may overlap
MaxGenRuns == 1           \* generate-answer hotkey presses explored
NumCaptureThreads == 1    \* capture_context / capture_subjective_screenshot threads
MaxScreenshots == 1       \* length of subjective_screenshots
MaxClears == 1            \* clear-state hotkey presses explored
MaxListeners == 2         \* pause listeners of one typing session alive at once
MaxReplyLen == 6          \* characters of a reply given to the normalisation
MaxNormalise == 2         \* successive applications of the normalisation

\* ------------------------------------------------------- program constants
API_KEY_PRIMARY == ""
API_KEY_SECONDARY == ""
REQUEST_LIMIT_BEFORE_SWITCH == 20

None == <<>>
Some(v) == <<v>>
Val(o) == o[1]

SolveOps == 1..NumSolveThreads
ApiThreads == (NumSolveThreads + 1)..(NumSolveThreads + NumApiThreads)
GenWorkers ==
  (NumSolveThreads + NumApiThreads + 1)..(NumSolveThreads + NumApiThreads + NumGenThreads)
Workers == SolveOps \cup ApiThreads \cup GenWorkers
TypeOps == 1..NumTypeThreads
CaptureOps == 1..NumCaptureThreads

\* Screen points delivered by the pointer: (0,0) and (1,1).
Points == {<<0, 0>>, <<1, 1>>}

VARIABLES
  \* credential rotation (lines 20-23, 97-98)
  api_request_count, current_api_key, model, switch_log,
  \* solve-MCQ shared state (lines 200-203)
  ai_response_ready, option_positions_ready, correct_index_global,
  option_positions_global,
  context_captured, question_image_exists,
  \* solve_current_mcq threads: position and locals
  solve_pc, top_left, bottom_right, option_positions, done, num_options,
  solve_click, solve_runs,
  \* ai_worker threads (one per solve operation, or a bare inference caller)
  w_pc, w_num_options, w_ret, w_model_after_increment, w_model_used,
  \* subjective mode and typing state (lines 57-64, 205)
  subjective_screenshots, ai_response_text, ai_response_ready_subjective,
  is_typing_active, is_typing_paused, current_typing_position, resume_typing_event,
  \* auto_type_response threads: position, locals, and what they emitted
  type_pc, type_i, brace_stack, mouse_listener, type_runs,
  last_emitted, pause_pos, resumed_from, type_finished,
  \* pause listeners started by the sessions that are still running
  alive_listeners,
  \* history of the pause / resume / abort signals (not program state)
  units_after_press, event_stale, press_stale, aborted,
  \* on_resume_typing in the hotkey thread; generate-answer presses
  resume_pc, gen_runs, clear_runs,
  \* a reply of the model to a free-form request and what lines 487-491 make
  \* of it, and of their own result
  response_text, cleaned_response,
  \* capture_context / capture_subjective_screenshot threads
  cap_pc, cap_kind, cap_top_left, cap_bottom_right,
  context_image_exists, subjective_files

apiVars == <<api_request_count, current_api_key, model, switch_log>>
solveGlobals == <<ai_response_ready, option_positions_ready,
                  correct_index_global, option_positions_global>>
solveVars == <<solve_pc, top_left, bottom_right, option_positions, done,
               num_options, solve_click, solve_runs>>
workerVars == <<w_pc, w_num_options, w_ret, w_model_after_increment, w_model_used>>
fileVars == <<context_captured, question_image_exists>>

typeGlobals == <<subjective_screenshots, ai_response_text, ai_response_ready_subjective,
                 is_typing_active, is_typing_paused, current_typing_position,
                 resume_typing_event>>
typeVars == <<type_pc, type_i, brace_stack, mouse_listener, type_runs, last_emitted,
              pause_pos, resumed_from, type_finished>>
listenerVars == <<alive_listeners>>
signalVars == <<units_after_press, event_stale, press_stale, aborted>>
hotkeyVars == <<resume_pc, gen_runs, clear_runs>>
replyVars == <<response_text, cleaned_response>>
captureVars == <<cap_pc, cap_kind, cap_top_left, cap_bottom_right,
                 context_image_exists, subjective_files>>

solveSide == <<solveGlobals, solveVars, fileVars>>
typingSide == <<typeGlobals, typeVars, listenerVars, signalVars, hotkeyVars, replyVars,
               captureVars>>

vars == <<apiVars, solveGlobals, solveVars, workerVars, fileVars, typeGlobals,
          typeVars, listenerVars, signalVars, hotkeyVars, replyVars, captureVars>>

\* ---------------------------------------------------- text of the model reply
\* response.text is a string: a sequence of one-character strings.
\* The characters str.strip() removes and regular expressions count as \s.
Whitespace == {" ", "\t", "\n", "\r"}
DigitChars == <<"0", "1", "2", "3", "4", "5", "6", "7", "8", "9">>
IsDigit(c) == \E k \in 1..10 : DigitChars[k] = c
DigitVal(c) == (CHOOSE k \in 1..10 : DigitChars[k] = c) - 1

RECURSIVE LStrip(_)
LStrip(s) == IF s # <<>> /\ Head(s) \in Whitespace THEN LStrip(Tail(s)) ELSE s

RECURSIVE RStrip(_)
RStrip(s) ==
  IF s # <<>> /\ s[Len(s)] \in Whitespace THEN RStrip(SubSeq(s, 1, Len(s) - 1)) ELSE s

\* str.strip()
Strip(s) == RStrip(LStrip(s))

RECURSIVE DigitsValue(_)
DigitsValue(s) ==
  IF s = <<>> THEN 0 ELSE 10 * DigitsValue(SubSeq(s, 1, Len(s) - 1)) + DigitVal(s[Len(s)])

AllDigits(s) == s # <<>> /\ \A k \in 1..Len(s) : IsDigit(s[k])

\* int(text): None stands for the ValueError int() raises.
IntOf(s) ==
  LET t == Strip(s) IN
  IF AllDigits(t) THEN Some(DigitsValue(t))
  ELSE IF t # <<>> /\ Head(t) \in {"-", "+"} /\ AllDigits(Tail(t))
       THEN Some(IF Head(t) = "-" THEN 0 - DigitsValue(Tail(t)) ELSE DigitsValue(Tail(t)))
       ELSE None

\* What model.generate_content may answer; ApiError is an exception of the call.
ApiError == <<"!raise">>
Responses ==
  { <<"1">>, <<"2">>, <<"3">>, <<"4">>, <<"0">>, <<" ", "2", "\n">>, <<"1", "2">>,
    <<"-", "1">>, <<"B">>, <<"2", ".">>, <<>> }

\* Lines 787-795 / 821-829: strip, int(), range check; None on any failure.
ParseIndex(text, n) ==
  LET v == IntOf(Strip(text)) IN
  IF v = None THEN None
  ELSE IF 1 <= Val(v) /\ Val(v) <= n THEN v ELSE None

\* ------------------------------------------------------------------- Init
InitExceptReply ==
  /\ api_request_count = 0
  /\ current_api_key = API_KEY_PRIMARY
  /\ model = 0
  /\ switch_log = <<>>
  /\ ai_response_ready = FALSE
  /\ option_positions_ready = FALSE
  /\ correct_index_global = None
  /\ option_positions_global = None
  /\ context_captured = FALSE
  /\ question_image_exists = FALSE
  /\ solve_pc = [p \in SolveOps |-> "idle"]
  /\ top_left = [p \in SolveOps |-> None]
  /\ bottom_right = [p \in SolveOps |-> None]
  /\ option_positions = [p \in SolveOps |-> <<>>]
  /\ done = [p \in SolveOps |-> FALSE]
  /\ num_options = [p \in SolveOps |-> 0]
  /\ solve_click = [p \in SolveOps |-> None]
  /\ solve_runs = 0
  /\ w_pc = [w \in Workers |-> "none"]
  /\ w_num_options = [w \in Workers |-> 0]
  /\ w_ret = [w \in Workers |-> None]
  /\ w_model_after_increment = [w \in Workers |-> 0]
  /\ w_model_used = [w \in Workers |-> 0]
  /\ subjective_screenshots = <<>>
  /\ ai_response_text = None
  /\ ai_response_ready_subjective = FALSE
  /\ is_typing_active = FALSE
  /\ is_typing_paused = FALSE
  /\ current_typing_position = 0
  /\ resume_typing_event = FALSE
  /\ type_pc = [t \in TypeOps |-> "idle"]
  /\ type_i = [t \in TypeOps |-> 0]
  /\ brace_stack = [t \in TypeOps |-> <<>>]
  /\ mouse_listener = [t \in TypeOps |-> FALSE]
  /\ alive_listeners = [t \in TypeOps |-> 0]
  /\ units_after_press = [t \in TypeOps |-> None]
  /\ event_stale = FALSE
  /\ press_stale = FALSE
  /\ aborted = [t \in TypeOps |-> FALSE]
  /\ type_runs = 0
  /\ last_emitted = [t \in TypeOps |-> -1]
  /\ pause_pos = [t \in TypeOps |-> None]
  /\ resumed_from = [t \in TypeOps |-> FALSE]
  /\ type_finished = [t \in TypeOps |-> None]
  /\ resume_pc = "idle"
  /\ gen_runs = 0
  /\ clear_runs = 0
  /\ cleaned_response = <<>>
  /\ cap_pc = [c \in CaptureOps |-> "idle"]
  /\ cap_kind = [c \in CaptureOps |-> "none"]
  /\ cap_top_left = [c \in CaptureOps |-> None]
  /\ cap_bottom_right = [c \in CaptureOps |-> None]
  /\ context_image_exists = FALSE
  /\ subjective_files = {}

Init == InitExceptReply /\ response_text = <<>>

\* ------------------------------------------------ increment_api_request
\* The whole body runs under api_key_lock, so it is one step.  model counts the
\* GenerativeModel objects created: 0 is the one of line 98, line 120 makes a
\* new one.  switch_log records the counter value of every call that ran the
\* rotation branch (lines 118-125).
RotationDue(count, key) ==
  count >= REQUEST_LIMIT_BEFORE_SWITCH /\ key = API_KEY_PRIMARY

increment_api_request(w) ==
  /\ w_pc[w] = "increment"
  /\ api_request_count < MaxRequests
  /\ api_request_count' = api_request_count + 1
  /\ IF RotationDue(api_request_count + 1, current_api_key)
     THEN /\ current_api_key' = API_KEY_SECONDARY
          /\ model' = model + 1
          /\ switch_log' = Append(switch_log, api_request_count + 1)
     ELSE UNCHANGED <<current_api_key, model, switch_log>>
  /\ w_model_after_increment' = [w_model_after_increment EXCEPT ![w] = model']
  /\ w_pc' = [w_pc EXCEPT ![w] = "generate"]
  /\ UNCHANGED <<solveGlobals, solveVars, fileVars, w_num_options, w_ret, w_model_used>>
  /\ UNCHANGED typingSide

\* Lines 779-798 (806-832 with context): the global model is read again, outside
\* the lock, when generate_content is called; the reply is parsed and validated.
generate_content(w) ==
  /\ w \in SolveOps \cup ApiThreads
  /\ w_pc[w] = "generate"
  /\ \E reply \in Responses \cup {ApiError} :
       w_ret' = [w_ret EXCEPT ![w] =
                   IF reply = ApiError THEN None ELSE ParseIndex(reply, w_num_options[w])]
  /\ w_model_used' = [w_model_used EXCEPT ![w] = model]
  /\ w_pc' = [w_pc EXCEPT ![w] = "assign"]
  /\ UNCHANGED <<apiVars, solveGlobals, solveVars, fileVars, w_num_options,
                 w_model_after_increment>>
  /\ UNCHANGED typingSide

\* Lines 309 / 316: correct_index_global = <returned value>.
AiWorkerAssign(w) ==
  /\ w_pc[w] = "assign"
  /\ correct_index_global' = w_ret[w]
  /\ w_pc' = [w_pc EXCEPT ![w] = "set_ready"]
  /\ UNCHANGED <<apiVars, ai_response_ready, option_positions_ready,
                 option_positions_global, solveVars, fileVars, w_num_options, w_ret,
                 w_model_after_increment, w_model_used>>
  /\ UNCHANGED typingSide

\* Line 327: ai_response_ready.set().
AiWorkerSetReady(w) ==
  /\ w_pc[w] = "set_ready"
  /\ ai_response_ready' = TRUE
  /\ w_pc' = [w_pc EXCEPT ![w] = "remove"]
  /\ UNCHANGED <<apiVars, option_positions_ready, correct_index_global,
                 option_positions_global, solveVars, fileVars, w_num_options, w_ret,
                 w_model_after_increment, w_model_used>>
  /\ UNCHANGED typingSide

\* Line 328: os.remove(QUESTION_IMAGE_PATH); a missing file raises in the
\* finally block and the thread ends either way.
AiWorkerRemove(w) ==
  /\ w_pc[w] = "remove"
  /\ question_image_exists' = FALSE
  /\ w_pc' = [w_pc EXCEPT ![w] = "done"]
  /\ UNCHANGED <<apiVars, solveGlobals, solveVars, context_captured, w_num_options,
                 w_ret, w_model_after_increment, w_model_used>>
  /\ UNCHANGED typingSide

AiWorker(w) ==
  \/ increment_api_request(w)
  \/ generate_content(w)
  \/ AiWorkerAssign(w)
  \/ AiWorkerSetReady(w)
  \/ AiWorkerRemove(w)

\* A bare inference caller: threading.Thread(target=ai_worker).start() with the
\* option count of its operation, used to drive the counter concurrently.
StartAiWorker(w) ==
  /\ w \in ApiThreads
  /\ w_pc[w] \in {"none", "done"}
  /\ api_request_count < MaxRequests
  /\ \E n \in 2..MaxOptions : w_num_options' = [w_num_options EXCEPT ![w] = n]
  /\ w_pc' = [w_pc EXCEPT ![w] = "increment"]
  /\ w_ret' = [w_ret EXCEPT ![w] = None]
  /\ UNCHANGED <<apiVars, solveGlobals, solveVars, fileVars,
                 w_model_after_increment, w_model_used>>
  /\ UNCHANGED typingSide

\* ------------------------------------------------------ solve_current_mcq
SolveLive(p) == solve_pc[p] # "idle"

\* A new thread takes the lowest free slot (thread identities are arbitrary).
FreeSolveSlot(p) ==
  /\ solve_pc[p] = "idle" /\ w_pc[p] \in {"none", "done"}
  /\ \A q \in SolveOps : q < p => ~(solve_pc[q] = "idle" /\ w_pc[q] \in {"none", "done"})

\* on_activate_question (877-880) starts a thread; the thread runs lines 217-224:
\* both events cleared, both globals reset, then the first click wait.
OnActivateQuestion(p) ==
  /\ FreeSolveSlot(p)
  /\ solve_runs < MaxSolveRuns
  /\ solve_runs' = solve_runs + 1
  /\ ai_response_ready' = FALSE
  /\ option_positions_ready' = FALSE
  /\ correct_index_global' = None
  /\ option_positions_global' = None
  /\ solve_pc' = [solve_pc EXCEPT ![p] = "top_left"]
  /\ top_left' = [top_left EXCEPT ![p] = None]
  /\ bottom_right' = [bottom_right EXCEPT ![p] = None]
  /\ option_positions' = [option_positions EXCEPT ![p] = <<>>]
  /\ done' = [done EXCEPT ![p] = FALSE]
  /\ num_options' = [num_options EXCEPT ![p] = 0]
  /\ solve_click' = [solve_click EXCEPT ![p] = None]
  /\ w_pc' = [w_pc EXCEPT ![p] = "none"]
  /\ w_ret' = [w_ret EXCEPT ![p] = None]
  /\ w_num_options' = [w_num_options EXCEPT ![p] = 0]
  /\ UNCHANGED <<apiVars, fileVars, w_model_after_increment, w_model_used>>
  /\ UNCHANGED typingSide

InvalidRegionNegativeOnly(tl, br) == br[1] - tl[1] < 0 \/ br[2] - tl[2] < 0

\* Lines 235-240: width <= 0 or height <= 0.
InvalidRegion(tl, br) == br[1] - tl[1] <= 0 \/ br[2] - tl[2] <= 0

\* Lines 235-281: validate the region, save the question image, start the
\* option listeners.  saved = FALSE is the exception path of lines 248-250.
\* An invalid region takes the thread to the report of line 241.
SolveRegion(p) ==
  /\ solve_pc[p] = "region"
  /\ \E saved \in BOOLEAN :
       IF InvalidRegion(Val(top_left[p]), Val(bottom_right[p]))
       THEN /\ saved
            /\ solve_pc' = [solve_pc EXCEPT ![p] = "invalid"]
            /\ UNCHANGED <<question_image_exists, top_left, bottom_right>>
       ELSE /\ IF saved
               THEN /\ solve_pc' = [solve_pc EXCEPT ![p] = "options"]
                    /\ question_image_exists' = TRUE
               ELSE /\ solve_pc' = [solve_pc EXCEPT ![p] = "idle"]
                    /\ UNCHANGED question_image_exists
            /\ top_left' = [top_left EXCEPT ![p] = None]
            /\ bottom_right' = [bottom_right EXCEPT ![p] = None]
  /\ UNCHANGED <<apiVars, solveGlobals, workerVars, context_captured,
                 option_positions, done, num_options, solve_click, solve_runs>>
  /\ UNCHANGED typingSide

\* Lines 241-242: "Invalid question region." is logged and the thread returns.
SolveInvalidReturn(p) ==
  /\ solve_pc[p] = "invalid"
  /\ solve_pc' = [solve_pc EXCEPT ![p] = "idle"]
  /\ top_left' = [top_left EXCEPT ![p] = None]
  /\ bottom_right' = [bottom_right EXCEPT ![p] = None]
  /\ UNCHANGED <<apiVars, solveGlobals, workerVars, fileVars,
                 option_positions, done, num_options, solve_click, solve_runs>>
  /\ UNCHANGED typingSide

\* Lines 288-330, after done.wait(timeout=120) returned: listeners stopped,
\* fewer than 2 options ends the operation, otherwise the option list is
\* published, option_positions_ready is set and ai_worker is started.
InsufficientOptionsBelowOne(n) == n < 1

\* Line 292.
InsufficientOptions(n) == n < 2

SolveAfterWait(p) ==
  /\ num_options' = [num_options EXCEPT ![p] = Len(option_positions[p])]
  /\ done' = [done EXCEPT ![p] = FALSE]
  /\ IF InsufficientOptions(Len(option_positions[p]))
     THEN /\ solve_pc' = [solve_pc EXCEPT ![p] = "idle"]
          /\ UNCHANGED <<option_positions_global, option_positions_ready, w_pc,
                         w_num_options>>
     ELSE /\ solve_pc' = [solve_pc EXCEPT ![p] = "wait_ai"]
          /\ option_positions_global' = Some(option_positions[p])
          /\ option_positions_ready' = TRUE
          /\ w_pc' = [w_pc EXCEPT ![p] = "increment"]
          /\ w_num_options' = [w_num_options EXCEPT ![p] = Len(option_positions[p])]
  /\ UNCHANGED <<apiVars, ai_response_ready, correct_index_global, fileVars, top_left,
                 bottom_right, option_positions, solve_click, solve_runs, w_ret,
                 w_model_after_increment, w_model_used>>
  /\ UNCHANGED typingSide

\* done.wait returns because Enter was pressed.
SolveOptionsConfirmed(p) ==
  /\ solve_pc[p] = "options"
  /\ done[p]
  /\ SolveAfterWait(p)

\* done.wait returns because the 120 s ran out; line 285 ignores the result.
SolveOptionsTimeout(p) ==
  /\ solve_pc[p] = "options"
  /\ ~done[p]
  /\ SolveAfterWait(p)

\* Line 336: ai_response_ready.wait().
SolveWaitAi(p) ==
  /\ solve_pc[p] = "wait_ai"
  /\ ai_response_ready
  /\ solve_pc' = [solve_pc EXCEPT ![p] = "check_none"]
  /\ UNCHANGED <<apiVars, solveGlobals, workerVars, fileVars, top_left, bottom_right,
                 option_positions, done, num_options, solve_click, solve_runs>>
  /\ UNCHANGED typingSide

\* Lines 339-341.
SolveCheckNone(p) ==
  /\ solve_pc[p] = "check_none"
  /\ solve_pc' = [solve_pc EXCEPT ![p] =
                    IF correct_index_global = None THEN "idle" ELSE "check_range"]
  /\ UNCHANGED <<apiVars, solveGlobals, workerVars, fileVars, top_left, bottom_right,
                 option_positions, done, num_options, solve_click, solve_runs>>
  /\ UNCHANGED typingSide

\* Lines 343-347; a None read here raises TypeError and ends the thread.
IndexAccepted(index, n) == ~(index < 1 \/ index > n)

SolveCheckRange(p) ==
  /\ solve_pc[p] = "check_range"
  /\ solve_pc' = [solve_pc EXCEPT ![p] =
                    IF correct_index_global = None THEN "idle"
                    ELSE IF IndexAccepted(Val(correct_index_global), num_options[p])
                         THEN "click"
                         ELSE "idle"]
  /\ UNCHANGED <<apiVars, solveGlobals, workerVars, fileVars, top_left, bottom_right,
                 option_positions, done, num_options, solve_click, solve_runs>>
  /\ UNCHANGED typingSide

\* Lines 351-360: option_positions_global[correct_index_global - 1], moveTo,
\* click; a None or an index past the list raises, caught by line 359.
\* solve_click records the click the operation performed.
SolveClick(p) ==
  /\ solve_pc[p] = "click"
  /\ solve_pc' = [solve_pc EXCEPT ![p] = "idle"]
  /\ IF \/ correct_index_global = None
        \/ option_positions_global = None
        \/ Val(correct_index_global) > Len(Val(option_positions_global))
     THEN UNCHANGED solve_click
     ELSE solve_click' = [solve_click EXCEPT ![p] =
               Some([point |-> Val(option_positions_global)[Val(correct_index_global)],
                     index |-> Val(correct_index_global)])]
  /\ UNCHANGED <<apiVars, solveGlobals, workerVars, fileVars, top_left, bottom_right,
                 option_positions, done, num_options, solve_runs>>
  /\ UNCHANGED typingSide

\* ------------------------------------------------ free-form answer text
\* $ under re.MULTILINE: at the end of the string or just before a newline.
\* pos is the 1-based index of the next character.
AtLineEnd(s, pos) == pos = Len(s) + 1 \/ s[pos] = "\n"

RECURSIVE WsRun(_, _)
WsRun(s, pos) ==
  IF pos <= Len(s) /\ s[pos] \in Whitespace THEN 1 + WsRun(s, pos + 1) ELSE 0

\* Length of the match of \s+$ at pos (greedy, backtracking), 0 when none.
TrailingWsMatch(s, pos) ==
  LET ks == {k \in 1..WsRun(s, pos) : AtLineEnd(s, pos + k)} IN
  IF ks = {} THEN 0 ELSE CHOOSE k \in ks : \A m \in ks : m <= k

\* re.sub(r"\s+$", "", s, flags=re.MULTILINE), line 490.
RECURSIVE SubTrailingWs(_, _)
SubTrailingWs(s, pos) ==
  IF pos > Len(s) THEN <<>>
  ELSE IF TrailingWsMatch(s, pos) > 0
       THEN SubTrailingWs(s, pos + TrailingWsMatch(s, pos))
       ELSE <<s[pos]>> \o SubTrailingWs(s, pos + 1)

RECURSIVE NewlineRun(_, _)
NewlineRun(s, pos) ==
  IF pos <= Len(s) /\ s[pos] = "\n" THEN 1 + NewlineRun(s, pos + 1) ELSE 0

\* re.sub(r"\n{2,}", "\n", s), line 491.
RECURSIVE SubNewlines(_, _)
SubNewlines(s, pos) ==
  IF pos > Len(s) THEN <<>>
  ELSE IF NewlineRun(s, pos) >= 2
       THEN <<"\n">> \o SubNewlines(s, pos + NewlineRun(s, pos))
       ELSE <<s[pos]>> \o SubNewlines(s, pos + 1)

CleanResponseNewlinesOnly(raw) == SubNewlines(Strip(raw), 1)

\* Lines 487-491: raw_response -> cleaned_response.
CleanResponse(raw) == SubNewlines(SubTrailingWs(Strip(raw), 1), 1)

\* Characters of the replies given to the normalisation, and the replies.
ReplyChars == {"a", " ", "\t", "\n", "\r"}
ReplyTexts == UNION {[1..n -> ReplyChars] : n \in 0..MaxReplyLen}

\* Lines 486-491 on the reply response_text; a further application takes the
\* previous result as the reply.
NormaliseReply ==
  /\ Len(cleaned_response) < MaxNormalise
  /\ cleaned_response' =
       Append(cleaned_response,
              CleanResponse(IF cleaned_response = <<>> THEN response_text
                            ELSE cleaned_response[Len(cleaned_response)]))
  /\ UNCHANGED <<apiVars, solveSide, workerVars, typeGlobals, typeVars, listenerVars,
                 signalVars, hotkeyVars, response_text, captureVars>>

\* Replies of the model to a free-form request.
GenReplies ==
  { <<"{", "\n", " ", "a">>,
    <<" ", "b", "\n">> }

\* ------------------------------------------ capture_context / subjective
FreeCaptureSlot(c) ==
  /\ cap_pc[c] = "idle"
  /\ \A q \in CaptureOps : q < c => cap_pc[q] # "idle"

\* on_activate_context (871-874) and on_capture_subjective (657-660): a thread
\* that starts with the top-left click wait (721 / 372).
OnCapture(c, kind) ==
  /\ FreeCaptureSlot(c)
  /\ kind = "subjective" => Len(subjective_screenshots) < MaxScreenshots
  /\ cap_pc' = [cap_pc EXCEPT ![c] = "top_left"]
  /\ cap_kind' = [cap_kind EXCEPT ![c] = kind]
  /\ UNCHANGED <<apiVars, solveSide, workerVars, typeGlobals, typeVars, listenerVars, signalVars, hotkeyVars, replyVars,
                 cap_top_left, cap_bottom_right, context_image_exists,
                 subjective_files>>

OnActivateContext(c) == OnCapture(c, "context")

OnCaptureSubjective(c) == OnCapture(c, "subjective")

\* Lines 732-748 and 383-405: validate the region, save the screenshot.
\* saved = FALSE is the exception path.
\* An invalid region takes the thread to the report of line 738 / 389.
CaptureRegion(c) ==
  /\ cap_pc[c] = "region"
  /\ IF InvalidRegion(Val(cap_top_left[c]), Val(cap_bottom_right[c]))
     THEN /\ cap_pc' = [cap_pc EXCEPT ![c] = "invalid"]
          /\ UNCHANGED <<cap_top_left, cap_bottom_right>>
     ELSE /\ cap_pc' = [cap_pc EXCEPT ![c] = "idle"]
          /\ cap_top_left' = [cap_top_left EXCEPT ![c] = None]
          /\ cap_bottom_right' = [cap_bottom_right EXCEPT ![c] = None]
  /\ \E saved \in BOOLEAN :
       IF InvalidRegion(Val(cap_top_left[c]), Val(cap_bottom_right[c])) \/ ~saved
       THEN /\ InvalidRegion(Val(cap_top_left[c]), Val(cap_bottom_right[c])) => saved
            /\ UNCHANGED <<context_captured, context_image_exists,
                           subjective_screenshots, subjective_files>>
       ELSE IF cap_kind[c] = "context"
       THEN /\ context_image_exists' = TRUE
            /\ context_captured' = TRUE
            /\ UNCHANGED <<subjective_screenshots, subjective_files>>
       ELSE /\ subjective_files' = subjective_files \cup {Len(subjective_screenshots) + 1}
            /\ subjective_screenshots' =
                 Append(subjective_screenshots, Len(subjective_screenshots) + 1)
            /\ UNCHANGED <<context_captured, context_image_exists>>
  /\ UNCHANGED <<apiVars, solveGlobals, solveVars, question_image_exists, workerVars,
                 ai_response_text, ai_response_ready_subjective, is_typing_active,
                 is_typing_paused, current_typing_position, resume_typing_event,
                 typeVars, listenerVars, signalVars, hotkeyVars, replyVars, cap_kind>>

\* Lines 738-739 / 389-390: the invalid region is logged and the thread returns.
CaptureInvalidReturn(c) ==
  /\ cap_pc[c] = "invalid"
  /\ cap_pc' = [cap_pc EXCEPT ![c] = "idle"]
  /\ cap_top_left' = [cap_top_left EXCEPT ![c] = None]
  /\ cap_bottom_right' = [cap_bottom_right EXCEPT ![c] = None]
  /\ UNCHANGED <<apiVars, solveSide, workerVars, typeGlobals, typeVars, listenerVars,
                 signalVars, hotkeyVars, replyVars, cap_kind, context_image_exists,
                 subjective_files>>

\* ------------------------------------------------- generate_ai_response
FreeGenSlot(g) ==
  /\ w_pc[g] \in {"none", "done"}
  /\ \A q \in GenWorkers : q < g => w_pc[q] \notin {"none", "done"}

\* Lines 413-425, 513: no screenshots ends the call; otherwise the event is
\* cleared and ai_worker is started.
GenerateResponse(g, runs) ==
  /\ FreeGenSlot(g)
  /\ gen_runs < runs
  /\ subjective_screenshots # <<>>
  /\ gen_runs' = gen_runs + 1
  /\ ai_response_ready_subjective' = FALSE
  /\ w_pc' = [w_pc EXCEPT ![g] = "increment"]
  /\ UNCHANGED <<apiVars, solveSide, w_num_options, w_ret, w_model_after_increment,
                 w_model_used, subjective_screenshots, ai_response_text,
                 is_typing_active, is_typing_paused, current_typing_position,
                 resume_typing_event, typeVars, listenerVars, signalVars, resume_pc, clear_runs, replyVars,
                 captureVars>>

\* on_generate_response (663-666), at most MaxGenRuns times.
OnGenerateResponse(g) == GenerateResponse(g, MaxGenRuns)

\* The same with a further press, after an earlier generation.
OnGenerateResponseAgain(g) == GenerateResponse(g, MaxGenRuns + 1)

\* Lines 430-508: the request, the clean-up of the reply, the assignment of
\* ai_response_text; an exception stores None.
GenWorkerRespond(g) ==
  /\ g \in GenWorkers
  /\ w_pc[g] = "generate"
  /\ \E reply \in GenReplies \cup {ApiError} :
       ai_response_text' = IF reply = ApiError THEN None ELSE Some(CleanResponse(reply))
  /\ w_model_used' = [w_model_used EXCEPT ![g] = model]
  /\ w_pc' = [w_pc EXCEPT ![g] = "gen_set_ready"]
  /\ UNCHANGED <<apiVars, solveSide, w_num_options, w_ret, w_model_after_increment,
                 subjective_screenshots, ai_response_ready_subjective,
                 is_typing_active, is_typing_paused, current_typing_position,
                 resume_typing_event, typeVars, listenerVars, signalVars, hotkeyVars, replyVars, captureVars>>

\* Line 510: ai_response_ready_subjective.set().
GenWorkerSetReady(g) ==
  /\ g \in GenWorkers
  /\ w_pc[g] = "gen_set_ready"
  /\ ai_response_ready_subjective' = TRUE
  /\ w_pc' = [w_pc EXCEPT ![g] = "done"]
  /\ UNCHANGED <<apiVars, solveSide, w_num_options, w_ret, w_model_after_increment,
                 w_model_used, subjective_screenshots, ai_response_text,
                 is_typing_active, is_typing_paused, current_typing_position,
                 resume_typing_event, typeVars, listenerVars, signalVars, hotkeyVars, replyVars, captureVars>>

GenWorker(g) ==
  \/ increment_api_request(g)
  \/ GenWorkerRespond(g)
  \/ GenWorkerSetReady(g)

\* ------------------------------------------------------- on_clear_context
\* Lines 704-711.
OnClearContext ==
  /\ clear_runs < MaxClears
  /\ clear_runs' = clear_runs + 1
  /\ context_captured' = FALSE
  /\ subjective_screenshots' = <<>>
  /\ ai_response_text' = None
  /\ subjective_files' = {}
  /\ UNCHANGED <<apiVars, solveGlobals, solveVars, question_image_exists, workerVars,
                 ai_response_ready_subjective, is_typing_active, is_typing_paused,
                 current_typing_position, resume_typing_event, typeVars, listenerVars, signalVars, resume_pc,
                 gen_runs, replyVars, cap_pc, cap_kind, cap_top_left, cap_bottom_right,
                 context_image_exists>>

\* ----------------------------------------------------- auto_type_response
TypeLive(t) == type_pc[t] # "idle"

\* A session is Typing or Paused once it is in the emission loop.
TypingOrPaused(t) ==
  type_pc[t] \in {"loop", "emit", "wait_resume", "resumed", "restart"}

\* The session is in the loop with is_typing_active set and no pause flagged.
TypingNow(t) ==
  /\ type_pc[t] \in {"loop", "emit", "restart"}
  /\ is_typing_active
  /\ ~is_typing_paused

\* A new thread takes the lowest slot whose session and listeners are gone.
FreeTypeSlot(t) ==
  /\ type_pc[t] = "idle" /\ alive_listeners[t] = 0
  /\ \A q \in TypeOps : q < t => ~(type_pc[q] = "idle" /\ alive_listeners[q] = 0)

\* Python ai_response_text[k] for a 0-based k.
CharAt(text, k) == text[k + 1]

\* mouse_listener[t] tells whether the variable mouse_listener of session t
\* holds a listener (it is None otherwise); a listener it holds is running.
\* `if mouse_listener and mouse_listener.is_alive(): mouse_listener.stop()`
\* (lines 584-585, 653-654): the number of listeners left running.
AfterStop(t) ==
  IF mouse_listener[t] THEN alive_listeners[t] - 1 ELSE alive_listeners[t]

\* is_typing_active is set to False by session t (lines 534, 651): every other
\* session in its loop has had the flag cleared under it.
AbortOthers(t) ==
  [u \in TypeOps |->
     IF u = t THEN FALSE
     ELSE aborted[u] \/ (is_typing_active /\ TypingOrPaused(u))]

\* on_type_response (669-672) starts a thread; the thread runs lines 525-529:
\* the typing state is reset, then the text is looked at.
OnTypeResponse(t) ==
  /\ FreeTypeSlot(t)
  /\ type_runs < MaxTypeRuns
  /\ type_runs' = type_runs + 1
  /\ is_typing_active' = TRUE
  /\ is_typing_paused' = FALSE
  /\ current_typing_position' = 0
  /\ type_pc' = [type_pc EXCEPT ![t] =
                   IF ai_response_text = None THEN "wait_text" ELSE "sleep"]
  /\ type_i' = [type_i EXCEPT ![t] = 0]
  /\ brace_stack' = [brace_stack EXCEPT ![t] = <<>>]
  /\ last_emitted' = [last_emitted EXCEPT ![t] = -1]
  /\ pause_pos' = [pause_pos EXCEPT ![t] = None]
  /\ resumed_from' = [resumed_from EXCEPT ![t] = FALSE]
  /\ type_finished' = [type_finished EXCEPT ![t] = None]
  /\ units_after_press' = [units_after_press EXCEPT ![t] = None]
  /\ aborted' = [aborted EXCEPT ![t] = FALSE]
  /\ UNCHANGED <<apiVars, solveSide, workerVars, subjective_screenshots,
                 ai_response_text, ai_response_ready_subjective, resume_typing_event,
                 mouse_listener, listenerVars, event_stale, press_stale, hotkeyVars, replyVars,
                 captureVars>>

\* Line 532: the text is still absent after the wait.
PayloadUnavailableNever(text) == FALSE

PayloadUnavailable(text) == text = None

\* Lines 531-535, after ai_response_ready_subjective.wait(timeout=60) returned.
TypeAfterWait(t) ==
  /\ IF PayloadUnavailable(ai_response_text)
     THEN /\ is_typing_active' = FALSE
          /\ type_pc' = [type_pc EXCEPT ![t] = "idle"]
          /\ aborted' = AbortOthers(t)
     ELSE /\ type_pc' = [type_pc EXCEPT ![t] = "sleep"]
          /\ UNCHANGED <<is_typing_active, aborted>>
  /\ UNCHANGED <<apiVars, solveSide, workerVars, subjective_screenshots,
                 ai_response_text, ai_response_ready_subjective, is_typing_paused,
                 current_typing_position, resume_typing_event, type_i, brace_stack,
                 mouse_listener, type_runs, last_emitted, pause_pos, resumed_from,
                 type_finished, listenerVars, units_after_press, event_stale,
                 press_stale, hotkeyVars, replyVars, captureVars>>

TypeWaitSignalled(t) ==
  /\ type_pc[t] = "wait_text"
  /\ ai_response_ready_subjective
  /\ TypeAfterWait(t)

TypeWaitTimeout(t) ==
  /\ type_pc[t] = "wait_text"
  /\ ~ai_response_ready_subjective
  /\ TypeAfterWait(t)

\* Lines 539-568: the 3 s sleep, the locals, the pause listener started.
TypeStartListener(t) ==
  /\ type_pc[t] = "sleep"
  /\ type_pc' = [type_pc EXCEPT ![t] = "loop"]
  /\ mouse_listener' = [mouse_listener EXCEPT ![t] = TRUE]
  /\ alive_listeners' = [alive_listeners EXCEPT ![t] = 1]
  /\ UNCHANGED <<apiVars, solveSide, workerVars, typeGlobals, type_i, brace_stack,
                 type_runs, last_emitted, pause_pos, resumed_from, type_finished,
                 signalVars, hotkeyVars, replyVars, captureVars>>

\* Lines 570-572 and 647-649: the loop condition and the pause test.  A None
\* text raises (caught by 648); leaving the loop logs "Finished typing".
TypeLoopCheck(t) ==
  /\ type_pc[t] = "loop"
  /\ IF ai_response_text # None /\ type_i[t] < Len(Val(ai_response_text))
        /\ is_typing_active
     THEN /\ type_pc' = [type_pc EXCEPT ![t] =
                           IF is_typing_paused THEN "wait_resume" ELSE "emit"]
          /\ pause_pos' = [pause_pos EXCEPT ![t] =
                             IF is_typing_paused THEN Some(type_i[t]) ELSE pause_pos[t]]
          /\ units_after_press' = [units_after_press EXCEPT ![t] =
                                    IF is_typing_paused THEN None ELSE units_after_press[t]]
          /\ UNCHANGED type_finished
     ELSE /\ type_pc' = [type_pc EXCEPT ![t] = "finally"]
          /\ type_finished' = [type_finished EXCEPT ![t] =
               IF ai_response_text = None THEN None
               ELSE Some([cursor |-> type_i[t], length |-> Len(Val(ai_response_text))])]
          /\ UNCHANGED <<pause_pos, units_after_press>>
  /\ UNCHANGED <<apiVars, solveSide, workerVars, typeGlobals, type_i, brace_stack,
                 mouse_listener, type_runs, last_emitted, resumed_from, listenerVars,
                 event_stale, press_stale, aborted, hotkeyVars, replyVars, captureVars>>

\* Lines 650-654, the finally block: is_typing_active = False, the listener
\* the variable holds is stopped; the thread ends and its locals are gone.
TypeFinally(t) ==
  /\ type_pc[t] = "finally"
  /\ type_pc' = [type_pc EXCEPT ![t] = "idle"]
  /\ is_typing_active' = FALSE
  /\ mouse_listener' = [mouse_listener EXCEPT ![t] = FALSE]
  /\ alive_listeners' = [alive_listeners EXCEPT ![t] = AfterStop(t)]
  /\ aborted' = AbortOthers(t)
  /\ type_i' = [type_i EXCEPT ![t] = 0]
  /\ brace_stack' = [brace_stack EXCEPT ![t] = <<>>]
  /\ last_emitted' = [last_emitted EXCEPT ![t] = -1]
  /\ pause_pos' = [pause_pos EXCEPT ![t] = None]
  /\ resumed_from' = [resumed_from EXCEPT ![t] = FALSE]
  /\ type_finished' = [type_finished EXCEPT ![t] = None]
  /\ units_after_press' = [units_after_press EXCEPT ![t] = None]
  /\ UNCHANGED <<apiVars, solveSide, workerVars, subjective_screenshots,
                 ai_response_text, ai_response_ready_subjective, is_typing_paused,
                 current_typing_position, resume_typing_event, type_runs, event_stale,
                 press_stale, hotkeyVars, replyVars, captureVars>>

\* Line 577: resume_typing_event.wait() returns.
TypeResumeWake(t) ==
  /\ type_pc[t] = "wait_resume"
  /\ resume_typing_event
  /\ type_pc' = [type_pc EXCEPT ![t] = "resumed"]
  /\ units_after_press' = [units_after_press EXCEPT ![t] = None]
  /\ UNCHANGED <<apiVars, solveSide, workerVars, typeGlobals, type_i, brace_stack,
                 mouse_listener, type_runs, last_emitted, pause_pos, resumed_from,
                 type_finished, listenerVars, event_stale, press_stale, aborted,
                 hotkeyVars, replyVars, captureVars>>

\* The loop position after a resume: `continue` at line 596 leaves i as it was.
ResumeCursorFromStored(t) == current_typing_position

ResumeCursor(t) == type_i[t]

\* Lines 578-581: event cleared, pause flag reset.
TypeResumeContinue(t) ==
  /\ type_pc[t] = "resumed"
  /\ resume_typing_event' = FALSE
  /\ event_stale' = FALSE
  /\ is_typing_paused' = FALSE
  /\ type_i' = [type_i EXCEPT ![t] = ResumeCursor(t)]
  /\ type_pc' = [type_pc EXCEPT ![t] = "restart"]
  /\ UNCHANGED <<apiVars, solveSide, workerVars, subjective_screenshots,
                 ai_response_text, ai_response_ready_subjective, is_typing_active,
                 current_typing_position, brace_stack, mouse_listener, type_runs,
                 last_emitted, pause_pos, resumed_from, type_finished, listenerVars,
                 units_after_press, press_stale, aborted, hotkeyVars, replyVars, captureVars>>

\* Lines 584-596: the listener the variable holds is stopped, a new one is
\* created, stored and started; then `continue`.  The on_mouse_click call that
\* paused the session runs in the old listener's thread and is not waited for:
\* when the variable is None that call may still be before line 557 or 559,
\* and then it stops the new listener, or only overwrites the variable.
RestartOutcomes(t) ==
  IF mouse_listener[t] THEN {"stored"} ELSE {"stored", "overwritten", "stopped"}

TypeRestartListener(t) ==
  /\ type_pc[t] = "restart"
  /\ AfterStop(t) < MaxListeners
  /\ \E outcome \in RestartOutcomes(t) :
       /\ mouse_listener' = [mouse_listener EXCEPT ![t] = (outcome = "stored")]
       /\ alive_listeners' = [alive_listeners EXCEPT ![t] =
                                IF outcome = "stopped" THEN AfterStop(t)
                                ELSE AfterStop(t) + 1]
  /\ type_pc' = [type_pc EXCEPT ![t] = "loop"]
  /\ UNCHANGED <<apiVars, solveSide, workerVars, typeGlobals, type_i, brace_stack,
                 type_runs, last_emitted, pause_pos, resumed_from, type_finished,
                 signalVars, hotkeyVars, replyVars, captureVars>>

\* Lines 618-633: the index after the spaces that follow the newline at i.
RECURSIVE SkipSpaces(_, _)
SkipSpaces(text, j) ==
  IF j < Len(text) /\ CharAt(text, j) = " " THEN SkipSpaces(text, j + 1) ELSE j

\* Lines 601-604.
BraceStackAfter(stack, char, k) ==
  IF char = "{" THEN Append(stack, k)
  ELSE IF char = "}" /\ stack # <<>> THEN SubSeq(stack, 1, Len(stack) - 1)
  ELSE stack

\* Units emitted since the last pointer press that found the session typing.
CountUnit(n) == IF n = None THEN None ELSE IF Val(n) >= 2 THEN n ELSE Some(Val(n) + 1)

\* Lines 598-645: one unit.  The text is read again; a None text or an index
\* past its end raises and the except block is entered.
\* A newline is emitted as Enter and the following spaces are skipped; any
\* other character is written and current_typing_position follows i.
TypeEmit(t) ==
  /\ type_pc[t] = "emit"
  /\ IF ai_response_text = None \/ type_i[t] >= Len(Val(ai_response_text))
     THEN /\ type_pc' = [type_pc EXCEPT ![t] = "finally"]
          /\ UNCHANGED <<type_i, brace_stack, current_typing_position, last_emitted,
                         pause_pos, resumed_from, units_after_press>>
     ELSE LET text == Val(ai_response_text)
              char == CharAt(text, type_i[t])
          IN /\ type_pc' = [type_pc EXCEPT ![t] = "loop"]
             /\ brace_stack' = [brace_stack EXCEPT ![t] =
                                  BraceStackAfter(brace_stack[t], char, type_i[t])]
             /\ last_emitted' = [last_emitted EXCEPT ![t] = type_i[t]]
             /\ resumed_from' = [resumed_from EXCEPT ![t] = pause_pos[t] # None]
             /\ pause_pos' = [pause_pos EXCEPT ![t] = None]
             /\ units_after_press' =
                  [units_after_press EXCEPT ![t] = CountUnit(units_after_press[t])]
             /\ IF char \in {"\n", "\r"}
                THEN /\ type_i' = [type_i EXCEPT ![t] = SkipSpaces(text, type_i[t] + 1)]
                     /\ UNCHANGED current_typing_position
                ELSE /\ type_i' = [type_i EXCEPT ![t] = type_i[t] + 1]
                     /\ current_typing_position' = type_i[t] + 1
  /\ UNCHANGED <<apiVars, solveSide, workerVars, subjective_screenshots,
                 ai_response_text, ai_response_ready_subjective, is_typing_active,
                 is_typing_paused, resume_typing_event, mouse_listener, type_runs,
                 type_finished, listenerVars, event_stale, press_stale, aborted,
                 hotkeyVars, replyVars, captureVars>>

TypeStep(t) ==
  \/ OnTypeResponse(t)
  \/ TypeWaitSignalled(t)
  \/ TypeWaitTimeout(t)
  \/ TypeStartListener(t)
  \/ TypeLoopCheck(t)
  \/ TypeFinally(t)
  \/ TypeResumeWake(t)
  \/ TypeResumeContinue(t)
  \/ TypeRestartListener(t)
  \/ TypeEmit(t)

\* ------------------------------------------------------- on_resume_typing
\* Line 679: the hotkey is accepted only while paused and active; lines
\* 681-685 release the modifiers and sleep 0.1 s before the event is set.
OnResumeTyping ==
  /\ resume_pc = "idle"
  /\ is_typing_paused /\ is_typing_active
  /\ resume_pc' = "set"
  /\ press_stale' = FALSE
  /\ UNCHANGED <<apiVars, solveSide, workerVars, typeGlobals, typeVars, listenerVars,
                 units_after_press, event_stale, aborted, gen_runs, clear_runs, replyVars,
                 captureVars>>

\* Line 687: resume_typing_event.set().  The event is stale when every press
\* that set it came before the pause that is now in force.
ResumeSet ==
  /\ resume_pc = "set"
  /\ resume_pc' = "idle"
  /\ resume_typing_event' = TRUE
  /\ event_stale' = IF resume_typing_event THEN event_stale /\ press_stale ELSE press_stale
  /\ press_stale' = FALSE
  /\ UNCHANGED <<apiVars, solveSide, workerVars, subjective_screenshots,
                 ai_response_text, ai_response_ready_subjective, is_typing_active,
                 is_typing_paused, current_typing_position, typeVars, listenerVars,
                 units_after_press, aborted, gen_runs, clear_runs, replyVars,
                 captureVars>>

\* ------------------------------------------------------ pointer and keyboard
\* A left press reaches every listener that is running: capture_single_click
\* (858-863) returns the point, on_click (262-268) appends it, on_mouse_click
\* (549-563) runs for each pause listener: while is_typing_active it sets
\* is_typing_paused, sets the variable to None and ends the listener;
\* otherwise it returns True and the listener stays.
MouseListening ==
  \/ \E p \in SolveOps : solve_pc[p] \in {"top_left", "bottom_right", "options"}
  \/ \E c \in CaptureOps : cap_pc[c] \in {"top_left", "bottom_right"}
  \/ \E t \in TypeOps : alive_listeners[t] > 0

\* The press sets is_typing_paused.
PressPauses == is_typing_active /\ \E t \in TypeOps : alive_listeners[t] > 0

MousePress(pt) ==
  /\ MouseListening \/ \E t \in TypeOps : TypingNow(t)
  /\ \A p \in SolveOps :
       solve_pc[p] = "options" => Len(option_positions[p]) < MaxOptions
  /\ solve_pc' = [p \in SolveOps |->
                    CASE solve_pc[p] = "top_left" -> "bottom_right"
                      [] solve_pc[p] = "bottom_right" -> "region"
                      [] OTHER -> solve_pc[p]]
  /\ top_left' = [p \in SolveOps |->
                    IF solve_pc[p] = "top_left" THEN Some(pt) ELSE top_left[p]]
  /\ bottom_right' = [p \in SolveOps |->
                        IF solve_pc[p] = "bottom_right" THEN Some(pt) ELSE bottom_right[p]]
  /\ option_positions' = [p \in SolveOps |->
                            IF solve_pc[p] = "options"
                            THEN Append(option_positions[p], pt)
                            ELSE option_positions[p]]
  /\ cap_pc' = [c \in CaptureOps |->
                  CASE cap_pc[c] = "top_left" -> "bottom_right"
                    [] cap_pc[c] = "bottom_right" -> "region"
                    [] OTHER -> cap_pc[c]]
  /\ cap_top_left' = [c \in CaptureOps |->
                        IF cap_pc[c] = "top_left" THEN Some(pt) ELSE cap_top_left[c]]
  /\ cap_bottom_right' = [c \in CaptureOps |->
                            IF cap_pc[c] = "bottom_right" THEN Some(pt)
                            ELSE cap_bottom_right[c]]
  /\ is_typing_paused' = (is_typing_paused \/ PressPauses)
  /\ mouse_listener' = [t \in TypeOps |->
                          IF is_typing_active /\ alive_listeners[t] > 0 THEN FALSE
                          ELSE mouse_listener[t]]
  /\ alive_listeners' = [t \in TypeOps |->
                           IF is_typing_active THEN 0 ELSE alive_listeners[t]]
  /\ units_after_press' = [t \in TypeOps |->
                             IF TypingNow(t) THEN Some(0) ELSE units_after_press[t]]
  /\ IF ~is_typing_paused /\ PressPauses
     THEN /\ event_stale' = resume_typing_event
          /\ press_stale' = (resume_pc = "set")
     ELSE UNCHANGED <<event_stale, press_stale>>
  /\ UNCHANGED <<apiVars, solveGlobals, workerVars, fileVars, done, num_options,
                 solve_click, solve_runs, subjective_screenshots, ai_response_text,
                 ai_response_ready_subjective, is_typing_active,
                 current_typing_position, resume_typing_event, type_pc, type_i,
                 brace_stack, type_runs, last_emitted, pause_pos, resumed_from,
                 type_finished, aborted, hotkeyVars, replyVars, cap_kind, context_image_exists,
                 subjective_files>>

\* on_key_press (270-274): Enter sets done and stops the keyboard listener.
PressEnter ==
  /\ \E p \in SolveOps : solve_pc[p] = "options" /\ ~done[p]
  /\ done' = [p \in SolveOps |-> done[p] \/ solve_pc[p] = "options"]
  /\ UNCHANGED <<apiVars, solveGlobals, workerVars, fileVars, solve_pc, top_left,
                 bottom_right, option_positions, num_options, solve_click, solve_runs>>
  /\ UNCHANGED typingSide

SolveStep(p) ==
  \/ OnActivateQuestion(p)
  \/ SolveRegion(p)
  \/ SolveInvalidReturn(p)
  \/ SolveOptionsConfirmed(p)
  \/ SolveOptionsTimeout(p)
  \/ SolveWaitAi(p)
  \/ SolveCheckNone(p)
  \/ SolveCheckRange(p)
  \/ SolveClick(p)

\* ----------------------------------------------------------- specifications
\* SpecSolve: the solve-MCQ protocol, any number of overlapping operations.
NextSolve ==
  \/ \E p \in SolveOps : SolveStep(p)
  \/ \E p \in SolveOps : AiWorker(p)
  \/ \E pt \in Points : MousePress(pt)
  \/ PressEnter

SpecSolve == Init /\ [][NextSolve]_vars

\* SpecType: capture, generate, type and resume, with the pointer.
NextType ==
  \/ \E c \in CaptureOps : OnCaptureSubjective(c)
  \/ \E c \in CaptureOps : CaptureRegion(c)
  \/ \E c \in CaptureOps : CaptureInvalidReturn(c)
  \/ \E g \in GenWorkers : OnGenerateResponse(g)
  \/ \E g \in GenWorkers : GenWorker(g)
  \/ \E t \in TypeOps : TypeStep(t)
  \/ OnResumeTyping
  \/ ResumeSet
  \/ \E pt \in Points : MousePress(pt)

SpecType == Init /\ [][NextType]_vars

\* SpecApi: inference callers driving increment_api_request concurrently.
NextApi ==
  \/ \E w \in ApiThreads : StartAiWorker(w)
  \/ \E w \in ApiThreads : AiWorker(w)

SpecApi == Init /\ [][NextApi]_vars

\* SpecRegion: the three operations that capture a region, up to the region
\* check and, for a solve operation, the start of its inference thread; with
\* clear-state.
NextRegion ==
  \/ \E p \in SolveOps : OnActivateQuestion(p)
  \/ \E p \in SolveOps : SolveRegion(p)
  \/ \E p \in SolveOps : SolveInvalidReturn(p)
  \/ \E p \in SolveOps : SolveOptionsConfirmed(p)
  \/ \E p \in SolveOps : SolveOptionsTimeout(p)
  \/ \E c \in CaptureOps : OnActivateContext(c)
  \/ \E c \in CaptureOps : OnCaptureSubjective(c)
  \/ \E c \in CaptureOps : CaptureRegion(c)
  \/ \E c \in CaptureOps : CaptureInvalidReturn(c)
  \/ \E pt \in Points : MousePress(pt)
  \/ PressEnter
  \/ OnClearContext

SpecRegion == Init /\ [][NextRegion]_vars

\* SpecGen: screenshot, repeated generation and typing sessions without resume.
NextGen ==
  \/ \E c \in CaptureOps : OnCaptureSubjective(c)
  \/ \E c \in CaptureOps : CaptureRegion(c)
  \/ \E c \in CaptureOps : CaptureInvalidReturn(c)
  \/ \E g \in GenWorkers : OnGenerateResponseAgain(g)
  \/ \E g \in GenWorkers : GenWorker(g)
  \/ \E t \in TypeOps : OnTypeResponse(t)
  \/ \E t \in TypeOps : TypeWaitSignalled(t)
  \/ \E t \in TypeOps : TypeWaitTimeout(t)
  \/ \E t \in TypeOps : TypeStartListener(t)
  \/ \E t \in TypeOps : TypeLoopCheck(t)
  \/ \E t \in TypeOps : TypeEmit(t)
  \/ \E t \in TypeOps : TypeFinally(t)
  \/ \E pt \in Points : MousePress(pt)
  \/ OnClearContext

SpecGen == Init /\ [][NextGen]_vars

\* SpecClean: the normalisation of lines 487-491 applied to every reply of up
\* to MaxReplyLen characters.
InitClean == InitExceptReply /\ response_text \in ReplyTexts

NextClean == NormaliseReply

SpecClean == InitClean /\ [][NextClean]_vars

\* The whole program.
Next ==
  \/ NextSolve
  \/ NextType
  \/ \E c \in CaptureOps : OnActivateContext(c)
  \/ OnClearContext

Spec == Init /\ [][Next]_vars

\* =================================================================== claims

\* The session emitted a unit in this step.
Emitted(t) == last_emitted'[t] # last_emitted[t] /\ last_emitted'[t] >= 0

\* The operation's own two signals: line 300 ran (the worker is started in the
\* same step), and the operation's own ai_worker ran line 327.
OwnOptionsSignalled(p) == w_pc[p] # "none"
OwnInferenceSignalled(p) == w_pc[p] \in {"remove", "done"}
OwnInferenceReturned(p) == w_pc[p] \in {"assign", "set_ready", "remove", "done"}

\* C1: a solve operation has clicked only if its own option-position signal and
\* its own inference signal were both set before.
C1_ClickAfterBothSignals ==
  \A p \in SolveOps :
    solve_click[p] # None => OwnOptionsSignalled(p) /\ OwnInferenceSignalled(p)

\* C2: the index a solve operation clicked is an integer in 1..N, N being the
\* number of option positions that same operation captured.
C2_ClickIndexInOwnRange ==
  \A p \in SolveOps :
    solve_click[p] # None =>
      1 <= Val(solve_click[p]).index /\ Val(solve_click[p]).index <= num_options[p]

\* C3: a solve operation whose own inference call failed (returned None) has
\* performed no click.
C3_NoClickAfterFailedInference ==
  \A p \in SolveOps :
    (OwnInferenceReturned(p) /\ w_ret[p] = None) => solve_click[p] = None

\* C4: at most one typing session is Typing or Paused at any time.
C4_SingleFlightTyping == Cardinality({t \in TypeOps : TypingOrPaused(t)}) <= 1

\* C5: at most one solve operation is in progress at any time.
C5_SingleFlightSolve == Cardinality({p \in SolveOps : SolveLive(p)}) <= 1

\* C6: a session's cursor never decreases and never exceeds the payload length,
\* and the session logs "Finished typing" only with the cursor at the payload
\* length.
C6_CursorMonotoneFinishAtEnd ==
  /\ [](\A t \in TypeOps :
         /\ type_finished[t] # None =>
              Val(type_finished[t]).cursor = Val(type_finished[t]).length
         /\ (TypingOrPaused(t) /\ ai_response_text # None) =>
              type_i[t] <= Len(Val(ai_response_text)))
  /\ [][\A t \in TypeOps :
         (TypingOrPaused(t) /\ TypingOrPaused(t)') => type_i'[t] >= type_i[t]]_vars

\* C7: the first unit a session emits after a pause observed at position k is
\* the unit at position k, and every unit it emitted before is below k.
C7_ResumeAtPausePosition ==
  [][\A t \in TypeOps :
       (Emitted(t) /\ pause_pos[t] # None) =>
         /\ last_emitted'[t] = Val(pause_pos[t])
         /\ last_emitted[t] < Val(pause_pos[t])]_vars

\* A session was paused past position 0, resumed, and emitted its next unit.
C7_Witness == \E t \in TypeOps : resumed_from[t] /\ last_emitted[t] > 0

\* C8: a unit emitted at position k comes after every unit the live sessions
\* have emitted: all of those are at positions below k.
C8_SurfaceOrder ==
  [][\A t \in TypeOps :
       Emitted(t) =>
         \A u \in TypeOps : TypeLive(u) => last_emitted[u] < last_emitted'[t]]_vars

\* C9: the rotation branch runs exactly once, at the call that brings the
\* counter to REQUEST_LIMIT_BEFORE_SWITCH, and at no other call.
C9_RotatesExactlyOnce ==
  /\ Len(switch_log) <= 1
  /\ \A k \in 1..Len(switch_log) : switch_log[k] = REQUEST_LIMIT_BEFORE_SWITCH
  /\ api_request_count >= REQUEST_LIMIT_BEFORE_SWITCH => Len(switch_log) >= 1

\* C10: every inference call is issued with the model object that was current
\* when its own increment_api_request call returned.
C10_CallUsesOwnCredential ==
  \A w \in Workers :
    OwnInferenceReturned(w) => w_model_used[w] = w_model_after_increment[w]

\* C11: a left press that finds a session typing sets the pause flag, and the
\* session then emits at most the one unit in flight before it has received a
\* resume signal.
C11_PressPausesTyping ==
  /\ [](\A t \in TypeOps :
         units_after_press[t] # None => Val(units_after_press[t]) <= 1)
  /\ [][\A t \in TypeOps :
         (units_after_press[t] # Some(0) /\ units_after_press'[t] = Some(0)) =>
           is_typing_paused']_vars

\* C12: a pause is released only by a resume signal that was set by a resume
\* press made after that pause began: never by a signal left set by an earlier
\* press.
C12_ResumeExactlyOnce ==
  [][\A t \in TypeOps :
       (type_pc[t] = "wait_resume" /\ type_pc'[t] = "resumed") => ~event_stale]_vars

\* C13: a session whose is_typing_active flag was cleared while it was in its
\* loop does not pass the loop condition again: it emits no further unit.
C13_AbortObserved ==
  [][\A t \in TypeOps :
       (aborted[t] /\ type_pc[t] = "loop") => type_pc'[t] # "emit"]_vars

\* C14: a session started with no answer text waits on the bounded wait, which
\* can always return; if the text is still absent it ends with is_typing_active
\* false, no unit emitted and no pointer listener started.
C14_PayloadUnavailableEnds ==
  /\ [](\A t \in TypeOps :
         type_pc[t] = "wait_text" =>
           ENABLED (TypeWaitSignalled(t) \/ TypeWaitTimeout(t)))
  /\ [][\A t \in TypeOps :
         /\ (type_pc[t] = "idle" /\ type_pc'[t] # "idle" /\ ai_response_text = None) =>
              type_pc'[t] = "wait_text"
         /\ (type_pc[t] = "wait_text" /\ type_pc'[t] # "wait_text"
               /\ ai_response_text = None) =>
              /\ type_pc'[t] = "idle"
              /\ ~is_typing_active'
              /\ last_emitted'[t] = -1
              /\ ~mouse_listener'[t] /\ alive_listeners'[t] = 0]_vars

\* The one session started so far found no text, waited and ended.
C14_Witness ==
  /\ type_runs = 1 /\ gen_runs = 0
  /\ type_pc[1] = "idle" /\ ~is_typing_active

\* C15: the click of a solve operation is at the k-th point, in click order, of
\* the option positions that same operation recorded, k being the index its
\* own inference call returned.
C15_ClickAtOwnOption ==
  \A p \in SolveOps :
    solve_click[p] # None =>
      /\ OwnInferenceReturned(p)
      /\ w_ret[p] = Some(Val(solve_click[p]).index)
      /\ Val(solve_click[p]).index <= Len(option_positions[p])
      /\ Val(solve_click[p]).point = option_positions[p][Val(solve_click[p]).index]

C17_OptionTimeoutCancels ==
  [][\A p \in SolveOps :
       (solve_pc[p] = "options" /\ solve_pc'[p] # "options" /\ ~done[p]) =>
         solve_pc'[p] = "idle" /\ w_pc'[p] = "none"]_vars

\* C18: when option collection ends with fewer than 2 recorded positions the
\* operation returns at once: option_positions_ready, the inference threads,
\* the request counter and the clicks are as before; and an operation that
\* clicked had at least 2 recorded positions.
C18_InsufficientOptionsFails ==
  /\ [](\A p \in SolveOps : solve_click[p] # None => Len(option_positions[p]) >= 2)
  /\ [][\A p \in SolveOps :
         (solve_pc[p] = "options" /\ solve_pc'[p] # "options"
            /\ Len(option_positions[p]) < 2) =>
           /\ solve_pc'[p] = "idle"
           /\ UNCHANGED <<option_positions_ready, option_positions_global, w_pc,
                          api_request_count, solve_click>>]_vars

\* The only solve operation so far saved its question image, recorded one
\* option position and has returned without an inference thread.
C18_Witness ==
  /\ solve_runs = 1 /\ solve_pc[1] = "idle" /\ question_image_exists
  /\ Len(option_positions[1]) = 1 /\ w_pc[1] = "none"
  /\ ~option_positions_ready /\ api_request_count = 0

\* C19: an operation waiting in capture_single_click can leave the wait by a
\* step of its own, without a pointer press.
C19_SingleClickWaitEnds ==
  /\ \A p \in SolveOps :
       solve_pc[p] \in {"top_left", "bottom_right"} => ENABLED SolveStep(p)
  /\ \A c \in CaptureOps :
       cap_pc[c] \in {"top_left", "bottom_right"} =>
         ENABLED (CaptureRegion(c) \/ CaptureInvalidReturn(c))

\* C20: a typing session that has returned has no pause listener running.
\* (The listeners of capture_single_click and of the option wait exist only
\* while the operation is at that wait: lines 865-866 and 277-289.)
C20_ListenersReleased ==
  \A t \in TypeOps : type_pc[t] = "idle" => alive_listeners[t] = 0

\* C21: when no solve operation and no inference thread of one is running, the
\* question image file does not exist; and right after clear-state neither a
\* subjective screenshot file nor the context image file exists.
C21_TransientFilesRemoved ==
  /\ []( (\A p \in SolveOps : solve_pc[p] = "idle" /\ w_pc[p] \in {"none", "done"})
           => ~question_image_exists )
  /\ [][clear_runs' # clear_runs =>
          (subjective_files' = {} /\ ~context_image_exists')]_vars

\* C22: the result of the normalisation has no whitespace character at the end
\* of a line and no two consecutive newlines, and normalising the result
\* gives the result again.
C22_NormaliseIdempotent ==
  /\ Len(cleaned_response) >= 1 =>
       /\ \A k \in 1..Len(cleaned_response[1]) :
            (k = Len(cleaned_response[1]) \/ cleaned_response[1][k + 1] = "\n") =>
              cleaned_response[1][k] \notin {" ", "\t", "\r", "\n"}
       /\ \A k \in 1..(Len(cleaned_response[1]) - 1) :
            ~(cleaned_response[1][k] = "\n" /\ cleaned_response[1][k + 1] = "\n")
  /\ Len(cleaned_response) >= 2 => cleaned_response[2] = cleaned_response[1]

\* A reply with a space before a blank line, normalised twice.
C22_Witness ==
  /\ response_text = <<"a", " ", "\n", "\n", "\t", "a">>
  /\ cleaned_response = << <<"a", "\n", "\t", "a">>, <<"a", "\n", "\t", "a">> >>

\* C23: while the inference worker of a generate-answer operation has not yet
\* assigned its result, ai_response_text holds no text, and a typing session
\* started then waits for the result.
C23_NoStaleAnswer ==
  /\ []( (\E g \in GenWorkers : w_pc[g] \in {"increment", "generate"})
           => ai_response_text = None )
  /\ [][\A t \in TypeOps :
         ( /\ type_pc[t] = "idle" /\ type_pc'[t] # "idle"
           /\ \E g \in GenWorkers : w_pc[g] \in {"increment", "generate"} )
         => type_pc'[t] = "wait_text"]_vars

\* C24: while a typing session is in its emission loop the text it reads is
\* not changed.
C24_PayloadFixed ==
  [][(\E t \in TypeOps : TypingOrPaused(t)) => ai_response_text' = ai_response_text]_vars

\* C25: a typing session blocked at resume_typing_event.wait() has
\* is_typing_paused and is_typing_active both true, which is what
\* on_resume_typing asks for before it sets the event.
C25_BlockedSessionResumable ==
  \A t \in TypeOps :
    (type_pc[t] = "wait_resume" /\ ~resume_typing_event /\ resume_pc = "idle")
      => (is_typing_paused /\ is_typing_active)

\* C26: while a typing session is paused, current_typing_position equals the
\* loop position i of the session.
C26_StoredCursorIsLoopCursor ==
  \A t \in TypeOps : type_pc[t] = "wait_resume" => current_typing_position = type_i[t]

\* C27: every emitting iteration of a session strictly increases its position
\* i and keeps it within the payload, and a session blocked in the paused wait
\* is released by the event, or a resume press is under way or would be
\* accepted; so the loop cannot run or wait forever.
C27_LoopProgress ==
  /\ [][\A t \in TypeOps :
         (type_pc[t] = "emit" /\ type_pc'[t] = "loop") =>
           /\ type_i'[t] > type_i[t]
           /\ ai_response_text # None /\ type_i'[t] <= Len(Val(ai_response_text))]_vars
  /\ [](\A t \in TypeOps :
          type_pc[t] = "wait_resume" =>
            \/ ENABLED TypeResumeWake(t)
            \/ resume_pc = "set"
            \/ ENABLED OnResumeTyping)

\* C28: one step completes, or records an option for, at most one of the
\* click waits that are pending, and does not also pause a typing session.
C28_PressConsumedOnce ==
  [][Cardinality({p \in SolveOps :
                    \/ solve_pc[p] \in {"top_left", "bottom_right"} /\ solve_pc'[p] # solve_pc[p]
                    \/ Len(option_positions'[p]) > Len(option_positions[p])})
       + Cardinality({c \in CaptureOps :
                        cap_pc[c] \in {"top_left", "bottom_right"} /\ cap_pc'[c] # cap_pc[c]})
       + Cardinality({t \in TypeOps : alive_listeners'[t] < alive_listeners[t]
                                        /\ is_typing_paused' /\ type_pc'[t] = type_pc[t]})
       <= 1]_vars

====
